---------------------------- MODULE Spec2Model ----------------------------
(***************************************************************************)
(* OpenRASP: the Java agent's command hook (ProcessBuilderHook) and the     *)
(* cloud backend's dependency model (AddDependency, AggrDependencyByQuery). *)
(*                                                                          *)
(* Strings are sequences of one-character strings, so that joining,         *)
(* splitting and concatenation are computed and not assumed.  Optional      *)
(* values (a Java reference that may be null) are sequences of length at    *)
(* most one: None is null, Some(x) is a reference to x.                     *)
(***************************************************************************)
EXTENDS Integers, Sequences, FiniteSets, TLC

VARIABLES
    pc,         \* per thread: the place of its checkCommand invocation
    cmdBytes,   \* per thread: byte[] command of checkCommand(byte[], byte[])
    argBytes,   \* per thread: byte[] args of checkCommand(byte[], byte[])
    arg,        \* per thread: the List<String> checkCommand(List) received
    params,     \* per thread: the local variable params (null or a reference)
    stackInfo,  \* per thread: the local variable stackInfo
    heap,       \* script objects by reference: their command and stack fields
    touched,    \* per script object: the threads that read or wrote it
    thrown,     \* per thread: the Throwable raised inside the try block, if any
    logged,     \* per thread: number of diagnostics logged for its invocation
    handed,     \* per thread: what it passed to HookHandler.doCheckWithoutRequest
    engineErr,  \* per thread: the internal error the decision engine hit, if any
    outcome,    \* per thread: how the invocation ended for the intercepted call
    index,      \* the dependency documents the backend holds
    assigned,   \* every (input dependency, agent, emitted document) AddDependency produced
    now,        \* number of AddDependency calls so far (the clock of CreateTime)
    aggr        \* the last AggrDependencyByQuery call and what it returned

cmdVars == <<pc, cmdBytes, argBytes, arg, params, stackInfo, heap, touched,
             thrown, logged, handed, engineErr, outcome>>
depVars == <<index, assigned, now, aggr>>
vars == <<pc, cmdBytes, argBytes, arg, params, stackInfo, heap, touched,
          thrown, logged, handed, engineErr, outcome, index, assigned, now, aggr>>

None == <<>>
Some(x) == <<x>>

Min(a, b) == IF a < b THEN a ELSE b

(***************************************************************************)
(* Bounds of the model.                                                     *)
(***************************************************************************)
NumThreads == 2     \* concurrent checkCommand invocations
MaxListLen == 3     \* longest command list
MaxBytes == 3       \* longest byte[] argument
MaxCalls == 2       \* AddDependency calls in one behaviour
MaxBatch == 2       \* dependencies in one AddDependency call
MaxPage == 2        \* Page and Perpage range over -1 .. MaxPage

Threads == 1 .. NumThreads

(***************************************************************************)
(* Words of the command lists.                                              *)
(***************************************************************************)
BinSh == <<"/", "b", "i", "n", "/", "s", "h">>
DashC == <<"-", "c">>
Id == <<"i", "d">>
EmptyArg == <<>>
Words == {BinSh, DashC, Id, EmptyArg}
Space == <<" ">>

RECURSIVE ListsUpTo(_, _)
ListsUpTo(S, n) ==
    IF n = 0 THEN {<<>>}
    ELSE LET shorter == ListsUpTo(S, n - 1)
         IN  shorter \cup {Append(l, x) : l \in {s \in shorter : Len(s) = n - 1}, x \in S}

(***************************************************************************)
(* ProcessBuilderHook.checkCommand(byte[] command, byte[] args)             *)
(***************************************************************************)
Bytes == {0, 97, 98}

\* new String(byte[]): the bytes of the model are ASCII, which every default
\* charset decodes one byte to one character.
Chr(b) == CASE b = 0 -> "NUL" [] b = 97 -> "a" [] b = 98 -> "b"

Decode(bs) == [i \in 1 .. Len(bs) |-> Chr(bs[i])]

\* Arrays.copyOfRange(args, from, to): the bytes at 0-based [from, to).
CopyOfRange(bs, from, to) == SubSeq(bs, from + 1, to)

\* new String(command, 0, command.length - 1)
CommandWithoutLast(command) == Decode(SubSeq(command, 1, Len(command) - 1))

\* A slip of the loop: position = i, which keeps the zero byte in the next element.
SamePosition(i) == i

\* position = i + 1
NextPosition(i) == i + 1

\* for (int i = 0; i < args.length; i++) { if (args[i] == 0) { ... } }
RECURSIVE ArgsLoop(_, _, _, _)
ArgsLoop(args, i, position, commands) ==
    IF i >= Len(args) THEN commands
    ELSE IF args[i + 1] = 0
         THEN ArgsLoop(args, i + 1, NextPosition(i),
                       Append(commands, Decode(CopyOfRange(args, position, i))))
         ELSE ArgsLoop(args, i + 1, position, commands)

BuildCommands(command, args) ==
    LET first == IF command # None /\ Len(command[1]) > 0
                 THEN <<CommandWithoutLast(command[1])>>
                 ELSE <<>>
    IN  IF args # None /\ Len(args[1]) > 0
        THEN ArgsLoop(args[1], 0, 0, first)
        ELSE first

CheckCommandBytes(t) ==
    /\ pc[t] = "bytes"
    /\ arg' = [arg EXCEPT ![t] = Some(BuildCommands(cmdBytes[t], argBytes[t]))]
    /\ pc' = [pc EXCEPT ![t] = "call"]
    /\ UNCHANGED <<cmdBytes, argBytes, params, stackInfo, heap, touched, thrown,
                   logged, handed, engineErr, outcome>>
    /\ UNCHANGED depVars

(***************************************************************************)
(* ProcessBuilderHook.checkCommand(List<String> command)                    *)
(***************************************************************************)
\* StringUtils.join(command, " "): the first element, then separator and
\* element for every further one.
RECURSIVE JoinFrom(_, _, _, _)
JoinFrom(list, sep, k, buf) ==
    IF k > Len(list) THEN buf
    ELSE JoinFrom(list, sep, k + 1, (buf \o sep) \o list[k])

\* A slip of the join: the elements appended with nothing between them.
JoinWithoutSeparator(list, sep) ==
    IF Len(list) = 0 THEN <<>> ELSE JoinFrom(list, <<>>, 2, list[1])

StringUtilsJoin(list, sep) ==
    IF Len(list) = 0 THEN <<>> ELSE JoinFrom(list, sep, 2, list[1])

\* The call stack of the thread an invocation runs on, innermost frame first.
StackDepth == 3
CallStack(t) == [k \in 1 .. StackDepth |-> <<"frame", t, k>>]

\* Config.REFLECTION_STACK_START_INDEX and Config.getConfig().getPluginMaxStack()
StackStartIndex == 0
PluginMaxStack == 2

\* StackTrace.getStackTraceArray(startIndex, depth): at most depth frames,
\* starting startIndex frames above the capture point.
GetStackTraceArray(t, startIndex, depth) ==
    SubSeq(CallStack(t), startIndex + 1, Min(StackDepth, startIndex + depth))

\* cx.newObject(cx.getScope()): a new script object for every invocation.
NewObjectRef(t) == t

EmptyObject == [command |-> None, stack |-> None]

\* catch (Throwable t)
ThrowableKinds == {"Exception", "Error"}
Catches(kind) == kind \in ThrowableKinds

TryPcs == {"enter", "newObject", "putCommand", "getStack", "newArray", "putStack"}

\* if (command != null && !command.isEmpty())
CheckCommandList(t) ==
    /\ pc[t] = "call"
    /\ IF arg[t] # None /\ Len(arg[t][1]) > 0
       THEN /\ pc' = [pc EXCEPT ![t] = "enter"]
            /\ UNCHANGED outcome
       ELSE /\ pc' = [pc EXCEPT ![t] = "returned"]
            /\ outcome' = [outcome EXCEPT ![t] = "allowed"]
    /\ params' = [params EXCEPT ![t] = None]
    /\ UNCHANGED <<cmdBytes, argBytes, arg, stackInfo, heap, touched, thrown,
                   logged, handed, engineErr>>
    /\ UNCHANGED depVars

\* JSContext cx = JSContextFactory.enterAndInitContext();
EnterContext(t) ==
    /\ pc[t] = "enter"
    /\ pc' = [pc EXCEPT ![t] = "newObject"]
    /\ UNCHANGED <<cmdBytes, argBytes, arg, params, stackInfo, heap, touched,
                   thrown, logged, handed, engineErr, outcome>>
    /\ UNCHANGED depVars

\* params = cx.newObject(cx.getScope());
NewObject(t) ==
    /\ pc[t] = "newObject"
    /\ LET r == NewObjectRef(t)
       IN  /\ params' = [params EXCEPT ![t] = Some(r)]
           /\ heap' = (r :> EmptyObject) @@ heap
           /\ touched' = (r :> ((IF r \in DOMAIN touched THEN touched[r] ELSE {})
                                \cup {t})) @@ touched
    /\ pc' = [pc EXCEPT ![t] = "putCommand"]
    /\ UNCHANGED <<cmdBytes, argBytes, arg, stackInfo, thrown, logged, handed,
                   engineErr, outcome>>
    /\ UNCHANGED depVars

\* params.put("command", params, StringUtils.join(command, " "));
PutCommand(t) ==
    /\ pc[t] = "putCommand"
    /\ LET r == params[t][1]
       IN  /\ heap' = [heap EXCEPT ![r].command = Some(StringUtilsJoin(arg[t][1], Space))]
           /\ touched' = [touched EXCEPT ![r] = @ \cup {t}]
    /\ pc' = [pc EXCEPT ![t] = "getStack"]
    /\ UNCHANGED <<cmdBytes, argBytes, arg, params, stackInfo, thrown, logged,
                   handed, engineErr, outcome>>
    /\ UNCHANGED depVars

\* List<String> stackInfo = StackTrace.getStackTraceArray(...);
GetStack(t) ==
    /\ pc[t] = "getStack"
    /\ stackInfo' = [stackInfo EXCEPT
                       ![t] = GetStackTraceArray(t, StackStartIndex, PluginMaxStack)]
    /\ pc' = [pc EXCEPT ![t] = "newArray"]
    /\ UNCHANGED <<cmdBytes, argBytes, arg, params, heap, touched, thrown, logged,
                   handed, engineErr, outcome>>
    /\ UNCHANGED depVars

\* Scriptable stackArray = cx.newArray(cx.getScope(), stackInfo.toArray());
NewArray(t) ==
    /\ pc[t] = "newArray"
    /\ pc' = [pc EXCEPT ![t] = "putStack"]
    /\ UNCHANGED <<cmdBytes, argBytes, arg, params, stackInfo, heap, touched,
                   thrown, logged, handed, engineErr, outcome>>
    /\ UNCHANGED depVars

\* params.put("stack", params, stackArray);
PutStack(t) ==
    /\ pc[t] = "putStack"
    /\ LET r == params[t][1]
       IN  /\ heap' = [heap EXCEPT ![r].stack = Some(stackInfo[t])]
           /\ touched' = [touched EXCEPT ![r] = @ \cup {t}]
    /\ pc' = [pc EXCEPT ![t] = "afterTry"]
    /\ UNCHANGED <<cmdBytes, argBytes, arg, params, stackInfo, thrown, logged,
                   handed, engineErr, outcome>>
    /\ UNCHANGED depVars

\* Any statement of the try block may raise a Throwable instead of completing.
Throw(t) ==
    /\ pc[t] \in TryPcs
    /\ \E kind \in ThrowableKinds :
          thrown' = [thrown EXCEPT ![t] = Some([at |-> pc[t], kind |-> kind])]
    /\ pc' = [pc EXCEPT ![t] = "catch"]
    /\ UNCHANGED <<cmdBytes, argBytes, arg, params, stackInfo, heap, touched,
                   logged, handed, engineErr, outcome>>
    /\ UNCHANGED depVars

\* catch (Throwable t) { ... HookHandler.LOGGER.warn(...); }
Catch(t) ==
    /\ pc[t] = "catch"
    /\ IF Catches(thrown[t][1].kind)
       THEN /\ logged' = [logged EXCEPT ![t] = @ + 1]
            /\ pc' = [pc EXCEPT ![t] = "afterTry"]
            /\ UNCHANGED outcome
       ELSE /\ outcome' = [outcome EXCEPT ![t] = "fault"]
            /\ pc' = [pc EXCEPT ![t] = "returned"]
            /\ UNCHANGED logged
    /\ UNCHANGED <<cmdBytes, argBytes, arg, params, stackInfo, heap, touched,
                   thrown, handed, engineErr>>
    /\ UNCHANGED depVars

\* if (params != null) { HookHandler.doCheckWithoutRequest(Type.COMMAND, params); }
AfterTry(t) ==
    /\ pc[t] = "afterTry"
    /\ IF params[t] # None
       THEN LET r == params[t][1]
            IN  /\ handed' = [handed EXCEPT
                                ![t] = Some([type |-> "COMMAND", ref |-> r,
                                             fields |-> heap[r]])]
                /\ touched' = [touched EXCEPT ![r] = @ \cup {t}]
                /\ pc' = [pc EXCEPT ![t] = "engine"]
                /\ UNCHANGED outcome
       ELSE /\ pc' = [pc EXCEPT ![t] = "returned"]
            /\ outcome' = [outcome EXCEPT ![t] = "allowed"]
            /\ UNCHANGED <<handed, touched>>
    /\ UNCHANGED <<cmdBytes, argBytes, arg, params, stackInfo, heap, thrown,
                   logged, engineErr>>
    /\ UNCHANGED depVars

(***************************************************************************)
(* HookHandler.doCheckWithoutRequest: the decision engine.  It ends with a  *)
(* verdict of the policy, or hits one of its internal errors, which it      *)
(* catches at its boundary, logs, and reports as ALLOW.                     *)
(***************************************************************************)
Verdicts == {"ALLOW", "LOG", "BLOCK"}
EngineErrors == {"PoolExhaustedError", "ScriptLoadError", "CheckTimeoutError",
                 "ScriptRuntimeError"}

DoCheckWithoutRequest(t) ==
    /\ pc[t] = "engine"
    /\ \E raw \in Verdicts \cup EngineErrors :
          IF raw \in EngineErrors
          THEN /\ engineErr' = [engineErr EXCEPT ![t] = Some(raw)]
               /\ logged' = [logged EXCEPT ![t] = @ + 1]
               /\ outcome' = [outcome EXCEPT ![t] = "allowed"]
          ELSE /\ outcome' = [outcome EXCEPT
                                ![t] = IF raw = "BLOCK" THEN "blocked" ELSE "allowed"]
               /\ UNCHANGED <<engineErr, logged>>
    /\ pc' = [pc EXCEPT ![t] = "returned"]
    /\ UNCHANGED <<cmdBytes, argBytes, arg, params, stackInfo, heap, touched,
                   thrown, handed>>
    /\ UNCHANGED depVars

(***************************************************************************)
(* The cloud backend's dependency model: AddDependency                      *)
(***************************************************************************)
Colon == <<":">>
Empty == <<>>

\* The agents (Rasp) registered with the backend, of one application.
Rasps == {[Id |-> <<"r", "1">>, AppId |-> <<"A">>, HostName |-> <<"h", "1">>,
           RegisterIp |-> <<"1">>],
          [Id |-> <<"r", "2">>, AppId |-> <<"A">>, HostName |-> <<"h", "2">>,
           RegisterIp |-> <<"2">>]}

\* The dependencies an agent may report.  Tag and RaspId are the values the
\* request body carries for them, which AddDependency overwrites.
Paths == {<< <<"a">>, <<"b">> >>}
Vendors == {<<"v">>, <<"v", ":", "w">>}
Products == {<<"p">>}
Versions == {<<"1">>}
DepInputs == [Path : Paths, Vendor : Vendors, Product : Products,
              Version : Versions, Tag : {Empty}, RaspId : {Empty},
              Source : {<<"s">>}]

\* fmt.Sprint of a []string: "[" elements separated by a space "]".
RECURSIVE SprintElems(_, _, _)
SprintElems(path, k, buf) ==
    IF k > Len(path) THEN buf
    ELSE SprintElems(path, k + 1, (IF k = 1 THEN buf ELSE buf \o Space) \o path[k])

SprintStrings(path) == (<<"[">> \o SprintElems(path, 1, <<>>)) \o <<"]">>

\* idContent += fmt.Sprint(dependency.Path) ... Tag ... RaspId, read before
\* the loop body overwrites Tag and RaspId.
KeyContent(d) == (SprintStrings(d.Path) \o d.Tag) \o d.RaspId

\* dependency.Tag = dependency.Vendor + ":" + dependency.Product + ":" + dependency.Version
FormTag(d) == (((d.Vendor \o Colon) \o d.Product) \o Colon) \o d.Version

\* for _, dependency := range dependencies { ... }: idContent is declared
\* before the loop and carried from one dependency to the next.
RECURSIVE AddLoop(_, _, _, _, _, _)
AddLoop(rasp, deps, k, idContent, docs, clock) ==
    IF k > Len(deps) THEN docs
    ELSE LET d == deps[k]
             id == idContent \o KeyContent(d)
             doc == [UpsertId |-> id,
                     Path |-> d.Path,
                     CreateTime |-> clock,
                     RaspId |-> rasp.Id,
                     HostName |-> rasp.HostName,
                     RegisterIp |-> rasp.RegisterIp,
                     AppId |-> rasp.AppId,
                     Vendor |-> d.Vendor,
                     Product |-> d.Product,
                     Version |-> d.Version,
                     Tag |-> FormTag(d),
                     SearchString |-> d.Product \o d.Version,
                     Source |-> d.Source]
         IN  AddLoop(rasp, deps, k + 1, id, Append(docs, doc), clock)

\* AddDependency(rasp, dependencies): the documents are built, then sent to
\* the log queue and bulk-inserted; an error of either returns it.
AddDependency ==
    /\ now < MaxCalls
    /\ \E rasp \in Rasps, deps \in ListsUpTo(DepInputs, MaxBatch), delivered \in BOOLEAN :
          LET docs == AddLoop(rasp, deps, 1, <<>>, <<>>, now)
          IN  /\ assigned' = assigned \cup
                    {[in |-> deps[k], rasp |-> rasp.Id, call |-> now, pos |-> k,
                      doc |-> docs[k]] : k \in 1 .. Len(deps)}
              /\ index' = IF delivered
                          THEN index \cup {docs[k] : k \in 1 .. Len(docs)}
                          ELSE index
    /\ now' = now + 1
    /\ UNCHANGED aggr
    /\ UNCHANGED cmdVars

(***************************************************************************)
(* AggrDependencyByQuery                                                    *)
(***************************************************************************)
\* strings.Split(s, c) for a one-character separator.
RECURSIVE SplitLoop(_, _, _, _, _)
SplitLoop(s, c, k, cur, parts) ==
    IF k > Len(s) THEN Append(parts, cur)
    ELSE IF s[k] = c
         THEN SplitLoop(s, c, k + 1, <<>>, Append(parts, cur))
         ELSE SplitLoop(s, c, k + 1, Append(cur, s[k]), parts)

Split(s, c) == SplitLoop(s, c, 1, <<>>, <<>>)

\* The terms aggregation on "tag" of the backend: one bucket per distinct tag
\* of the application's documents, with the number of documents bearing it.
\* The order is the backend's.
TagsOf(docs) == {d.Tag : d \in docs}
BucketLists(docs) ==
    LET tags == TagsOf(docs)
        n == Cardinality(tags)
    IN  {[k \in 1 .. n |-> [Key |-> f[k],
                            DocCount |-> Cardinality({d \in docs : d.Tag = f[k]})]] :
            f \in {g \in [1 .. n -> tags] : \A i, j \in 1 .. n : g[i] = g[j] => i = j}}

\* index := i + (param.Page-1)*param.Perpage
BucketIndex(i, page, perpage) == i + (page - 1) * perpage

\* for i := 0; i < param.Perpage; i++ { ... }; terms.Buckets[index] panics
\* when index is outside the slice.
RECURSIVE AggrLoop(_, _, _, _, _, _, _)
AggrLoop(buckets, page, perpage, total, i, result, reads) ==
    IF i >= perpage
    THEN [outcome |-> "returned", total |-> total, result |-> result, reads |-> reads]
    ELSE LET idx == BucketIndex(i, page, perpage)
         IN  IF idx >= total
             THEN [outcome |-> "returned", total |-> total, result |-> result,
                   reads |-> reads]
             ELSE IF idx < 0 \/ idx >= Len(buckets)
             THEN [outcome |-> "panic_index", total |-> total, result |-> result,
                   reads |-> reads \cup {idx}]
             ELSE LET item == buckets[idx + 1]
                      dependencyData == Split(item.Key, ":")
                      value == [vendor |-> dependencyData[1],
                                product |-> dependencyData[2],
                                version |-> dependencyData[3],
                                tag |-> item.Key,
                                rasp_count |-> item.DocCount]
                  IN  AggrLoop(buckets, page, perpage, total, i + 1,
                               IF Len(dependencyData) = 3
                               THEN Append(result, value) ELSE result,
                               reads \cup {idx})

NoResult == [outcome |-> "none", total |-> 0, result |-> <<>>, reads |-> {}]

\* The body of AggrDependencyByQuery after the query is built: the search
\* error is returned, make([]..., 0, param.Perpage) panics for a negative
\* capacity, and the loop runs only when the response carries the buckets.
AggrResult(page, perpage, buckets, hasBuckets, searchErr) ==
    IF searchErr
    THEN [outcome |-> "error", total |-> 0, result |-> <<>>, reads |-> {}]
    ELSE IF perpage < 0
    THEN [outcome |-> "panic_makeslice", total |-> 0, result |-> <<>>, reads |-> {}]
    ELSE IF ~hasBuckets
    THEN [outcome |-> "returned", total |-> 0, result |-> <<>>, reads |-> {}]
    ELSE AggrLoop(buckets, page, perpage, Len(buckets), 0, <<>>, {})

NoAggr == [page |-> 0, perpage |-> 0, buckets |-> <<>>, ret |-> NoResult]

\* An aggregation without any bucket may come back with an empty bucket list
\* or with none at all.
AggrDependencyByQuery ==
    /\ \E page \in -1 .. MaxPage, perpage \in -1 .. MaxPage,
          buckets \in BucketLists(index), searchErr \in BOOLEAN :
          \E hasBuckets \in (IF buckets = <<>> THEN BOOLEAN ELSE {TRUE}) :
             aggr' = [page |-> page, perpage |-> perpage,
                      buckets |-> IF hasBuckets THEN buckets ELSE <<>>,
                      ret |-> AggrResult(page, perpage, buckets, hasBuckets, searchErr)]
    /\ UNCHANGED <<index, assigned, now>>
    /\ UNCHANGED cmdVars

(***************************************************************************)
(* Specifications                                                           *)
(***************************************************************************)
OptionalOf(S) == {None} \cup {Some(x) : x \in S}

DepIdle ==
    /\ index = {}
    /\ assigned = {}
    /\ now = 0
    /\ aggr = NoAggr

CmdIdle(start) ==
    /\ pc = [t \in Threads |-> start[t]]
    /\ params = [t \in Threads |-> None]
    /\ stackInfo = [t \in Threads |-> <<>>]
    /\ heap = <<>>
    /\ touched = <<>>
    /\ thrown = [t \in Threads |-> None]
    /\ logged = [t \in Threads |-> 0]
    /\ handed = [t \in Threads |-> None]
    /\ engineErr = [t \in Threads |-> None]
    /\ outcome = [t \in Threads |-> "none"]

ListSteps(t) ==
    \/ CheckCommandList(t)
    \/ EnterContext(t)
    \/ NewObject(t)
    \/ PutCommand(t)
    \/ GetStack(t)
    \/ NewArray(t)
    \/ PutStack(t)
    \/ Throw(t)
    \/ Catch(t)
    \/ AfterTry(t)
    \/ DoCheckWithoutRequest(t)

\* One invocation of checkCommand(List) on thread 1, for every command list.
InitCmd ==
    /\ CmdIdle([t \in Threads |-> IF t = 1 THEN "call" ELSE "idle"])
    /\ cmdBytes = [t \in Threads |-> None]
    /\ argBytes = [t \in Threads |-> None]
    /\ \E a \in OptionalOf(ListsUpTo(Words, MaxListLen)) :
          arg = [t \in Threads |-> IF t = 1 THEN a ELSE None]
    /\ DepIdle

NextCmd == ListSteps(1)

SpecCmd == InitCmd /\ [][NextCmd]_vars

\* One invocation of checkCommand(byte[], byte[]) on thread 1.
InitBytes ==
    /\ CmdIdle([t \in Threads |-> IF t = 1 THEN "bytes" ELSE "idle"])
    /\ \E c \in OptionalOf(ListsUpTo(Bytes, MaxBytes)) :
          cmdBytes = [t \in Threads |-> IF t = 1 THEN c ELSE None]
    /\ \E a \in OptionalOf(ListsUpTo(Bytes, MaxBytes)) :
          argBytes = [t \in Threads |-> IF t = 1 THEN a ELSE None]
    /\ arg = [t \in Threads |-> None]
    /\ DepIdle

NextBytes == CheckCommandBytes(1) \/ ListSteps(1)

SpecBytes == InitBytes /\ [][NextBytes]_vars

\* Concurrent invocations of checkCommand(List), one per thread.
ConcInputs == {Some(<<BinSh>>), Some(<<DashC, Id>>)}

InitConc ==
    /\ CmdIdle([t \in Threads |-> "call"])
    /\ cmdBytes = [t \in Threads |-> None]
    /\ argBytes = [t \in Threads |-> None]
    /\ arg \in [Threads -> ConcInputs]
    /\ DepIdle

NextConc == \E t \in Threads : ListSteps(t)

SpecConc == InitConc /\ [][NextConc]_vars

\* The backend: agents report dependencies, the console aggregates them.
InitDep ==
    /\ CmdIdle([t \in Threads |-> "idle"])
    /\ cmdBytes = [t \in Threads |-> None]
    /\ argBytes = [t \in Threads |-> None]
    /\ arg = [t \in Threads |-> None]
    /\ DepIdle

NextDep == AddDependency \/ AggrDependencyByQuery

SpecDep == InitDep /\ [][NextDep]_vars

(***************************************************************************)
(* Properties of the command hook                                           *)
(***************************************************************************)
RECURSIVE SumLen(_, _)
SumLen(list, k) == IF k = 0 THEN 0 ELSE SumLen(list, k - 1) + Len(list[k])

\* Where element k of list starts in the string of its elements separated by
\* one character each.
Offset(list, k) == SumLen(list, k - 1) + k

\* s is the elements of list, in order, with exactly one space between
\* neighbours and nothing else.
IsSpaceJoined(s, list) ==
    LET n == Len(list)
    IN  /\ Len(s) = SumLen(list, n) + (n - 1)
        /\ \A k \in 1 .. n :
              SubSeq(s, Offset(list, k), Offset(list, k) + Len(list[k]) - 1) = list[k]
        /\ \A k \in 1 .. n - 1 : s[Offset(list, k) + Len(list[k])] = " "

\* C1: when a Throwable is raised while the COMMAND parameter is built, the
\* invocation does not call HookHandler.doCheckWithoutRequest.
C1_BuildFailureSkipsCheck ==
    \A t \in Threads : thrown[t] # None => handed[t] = None

\* C2: for a non-null, non-empty command list whose parameter is built without
\* a Throwable, the parameter handed to the decision engine has type COMMAND
\* and its command field is the list's elements in order, separated by one space.
C2_CommandIsSpaceJoined ==
    \A t \in Threads :
        (handed[t] # None /\ thrown[t] = None) =>
            /\ handed[t][1].type = "COMMAND"
            /\ handed[t][1].fields.command # None
            /\ IsSpaceJoined(handed[t][1].fields.command[1], arg[t][1])

\* C2 witness: ["/bin/sh", "-c", "id"] reached the engine as "/bin/sh -c id".
C2_Witness ==
    \E t \in Threads :
        /\ handed[t] # None
        /\ thrown[t] = None
        /\ arg[t] = Some(<<BinSh, DashC, Id>>)
        /\ handed[t][1].fields.command =
              Some(<<"/", "b", "i", "n", "/", "s", "h", " ", "-", "c", " ", "i", "d">>)

\* C3: a check whose command list is null or empty invokes no policy check,
\* lets the operation proceed, and logs the malformation.
C3_EmptyCommandLogged ==
    \A t \in Threads :
        (pc[t] = "returned" /\ (arg[t] = None \/ arg[t] = Some(<<>>))) =>
            /\ handed[t] = None
            /\ outcome[t] = "allowed"
            /\ logged[t] > 0

\* C4: no internal failure escapes checkCommand: whenever an internal error
\* was raised during a check (while building the parameter, or inside the
\* engine), the invocation returns normally, the failure is logged and the
\* operation is treated as allowed.
C4_InternalErrorFailsOpen ==
    \A t \in Threads :
        pc[t] = "returned" =>
            /\ outcome[t] # "fault"
            /\ (thrown[t] # None \/ engineErr[t] # None) =>
                  (logged[t] > 0 /\ outcome[t] = "allowed")

\* C7: under every interleaving, the parameter an invocation hands to the
\* decision engine holds exactly that invocation's joined command and its
\* captured stack, and no other invocation has read or written the object.
C7_OwnParameter ==
    \A t \in Threads :
        handed[t] # None =>
            /\ handed[t][1].fields.command # None
            /\ IsSpaceJoined(handed[t][1].fields.command[1], arg[t][1])
            /\ handed[t][1].fields.stack =
                  Some(GetStackTraceArray(t, StackStartIndex, PluginMaxStack))
            /\ touched[handed[t][1].ref] = {t}

\* The part of C7 that is about sharing alone: a script object is touched by
\* the invocation that created it and by no other, and what it holds was put
\* there by that invocation.
ParamsNeverShared ==
    /\ \A r \in DOMAIN touched : touched[r] = {r}
    /\ \A t \in Threads :
          handed[t] # None =>
              /\ handed[t][1].ref = t
              /\ handed[t][1].fields.command \in
                    {None, Some(StringUtilsJoin(arg[t][1], Space))}
              /\ handed[t][1].fields.stack \in
                    {None, Some(GetStackTraceArray(t, StackStartIndex, PluginMaxStack))}

\* The zero bytes of args, and the k-th of them (0 for k = 0).
ZeroPositions(bs) == {i \in 1 .. Len(bs) : bs[i] = 0}
NthZero(bs, k) ==
    IF k = 0 THEN 0
    ELSE CHOOSE i \in ZeroPositions(bs) :
            Cardinality({j \in ZeroPositions(bs) : j < i}) = k - 1

\* The bytes strictly between the (k-1)-th and the k-th zero byte of args.
Segment(bs, k) ==
    [i \in 1 .. (NthZero(bs, k) - NthZero(bs, k - 1) - 1) |-> bs[NthZero(bs, k - 1) + i]]

ExpectedCommands(command, args) ==
    LET head == IF command # None /\ Len(command[1]) > 0
                THEN << [i \in 1 .. Len(command[1]) - 1 |-> Chr(command[1][i])] >>
                ELSE <<>>
        tail == IF args = None THEN <<>>
                ELSE [k \in 1 .. Cardinality(ZeroPositions(args[1])) |->
                         Decode(Segment(args[1], k))]
    IN  head \o tail

\* C9: checkCommand(byte[], byte[]) passes to checkCommand(List) the command
\* bytes without their last byte (when command is non-null and non-empty),
\* then one element per zero byte of args holding the bytes since the previous
\* zero byte; bytes after the last zero byte are dropped; the list is not
\* changed afterwards.
C9_BytesToList ==
    \A t \in Threads :
        pc[t] \notin {"bytes", "idle"} =>
            arg[t] = Some(ExpectedCommands(cmdBytes[t], argBytes[t]))

\* C9 witness: command "a\0" and args "b\0a" were checked as ["a", "b"].
C9_Witness ==
    \E t \in Threads :
        /\ pc[t] = "returned"
        /\ cmdBytes[t] = Some(<<97, 0>>)
        /\ argBytes[t] = Some(<<98, 0, 97>>)
        /\ arg[t] = Some(<< <<"a">>, <<"b">> >>)
        /\ handed[t] # None

(***************************************************************************)
(* Properties of the dependency model                                       *)
(***************************************************************************)
\* C5: the UpsertId AddDependency assigns depends on the dependency's own
\* path, tag and agent id only: equal ones get equal keys, wherever they
\* stand in a batch.
C5_KeyIsFunctionOfOwnFields ==
    \A x, y \in assigned :
        (/\ x.in.Path = y.in.Path
         /\ x.in.Tag = y.in.Tag /\ x.doc.Tag = y.doc.Tag
         /\ x.in.RaspId = y.in.RaspId /\ x.doc.RaspId = y.doc.RaspId)
            => x.doc.UpsertId = y.doc.UpsertId

\* C6: the UpsertId is built from the agent id and the tag of the emitted
\* document, so one path reported by two agents, or with two different
\* vendor/product/version triples, never gets one key.
C6_KeySeparatesAgentsAndTags ==
    \A x, y \in assigned :
        (/\ x.in.Path = y.in.Path
         /\ (x.doc.RaspId # y.doc.RaspId \/ x.doc.Tag # y.doc.Tag))
            => x.doc.UpsertId # y.doc.UpsertId

\* The triples from which AddDependency formed a tag.
Origin(tag) ==
    {<<x.in.Vendor, x.in.Product, x.in.Version>> : x \in {y \in assigned : y.doc.Tag = tag}}

\* C8: for Page P >= 1 and a page size N >= 0, AggrDependencyByQuery returns
\* total = number of buckets and one entry for every bucket at index in
\* [(P-1)*N, min(P*N, total)), in bucket order, whose vendor, product and
\* version are the triple from which AddDependency formed the bucket's tag.
C8_TagRoundTrip ==
    LET P == aggr.page
        N == aggr.perpage
        total == Len(aggr.buckets)
        lo == (P - 1) * N
        hi == Min(P * N, total)
        cnt == IF hi > lo THEN hi - lo ELSE 0
    IN  (aggr.ret.outcome \notin {"none", "error"} /\ P >= 1 /\ N >= 0) =>
            /\ aggr.ret.outcome = "returned"
            /\ aggr.ret.total = total
            /\ Len(aggr.ret.result) = cnt
            /\ \A k \in 1 .. cnt :
                  /\ k <= Len(aggr.ret.result)
                  /\ aggr.ret.result[k].tag = aggr.buckets[lo + k].Key
                  /\ <<aggr.ret.result[k].vendor, aggr.ret.result[k].product,
                       aggr.ret.result[k].version>> \in Origin(aggr.buckets[lo + k].Key)

\* C10: for every Page and Perpage, AggrDependencyByQuery reads bucket
\* indices in [0, total) only, never indexes outside the bucket list, and
\* returns at most Perpage entries.
C10_BucketIndexInRange ==
    aggr.ret.outcome # "none" =>
        /\ aggr.ret.outcome # "panic_index"
        /\ \A i \in aggr.ret.reads : 0 <= i /\ i < Len(aggr.buckets)
        /\ aggr.ret.outcome = "returned" => Len(aggr.ret.result) <= aggr.perpage

=============================================================================
